---------------------------- MODULE Spec2Model ----------------------------
(***************************************************************************)
(* Telemetry-to-trajectory pipeline of mpu6050-flight.                     *)
(*                                                                         *)
(*   helpers.py                 parse_telemetry_human, parse_telemetry_line*)
(*                              compute_position_from_telemetry            *)
(*   draw_flight_path.py        FlightPathVisualizer (__init__,            *)
(*                              read_serial_data, update)                  *)
(*   single_frame_telemetry.py  parse_telemetry_line (ground station)      *)
(*                                                                         *)
(* Text is a sequence of one-character strings.  Floating-point values     *)
(* are held at a resolution of 0.01: the number v is the integer 100*v     *)
(* (times, angles in degrees, positions in metres).  Axis limits are held  *)
(* at a resolution of 0.001 because of the 10% padding.  Angles are        *)
(* restricted to multiples of 90 degrees, where cos and sin are taken as   *)
(* -1, 0, 1.                                                               *)
(***************************************************************************)
EXTENDS Integers, Sequences, FiniteSets, TLC

VARIABLES
    \* ---- FlightPathVisualizer fields
    max_points, constant_speed, ser,
    position, velocity, last_time,
    x_data, y_data, z_data, timestamps,
    frame_count,
    colors,                \* weights written to the red channel of color_array
    xlim, ylim, zlim,      \* axis limits of self.ax
    \* ---- the tick loop
    frame,                 \* number of update() calls FuncAnimation has made
    outcome,               \* how the last update() call went
    alive,                 \* FALSE once an exception has escaped update()
    log,                   \* history: the raw lines readline() has returned
    accepted,              \* history: one record per accepted frame
    \* ---- parser harness
    line, human_result, single_result

session_vars == <<max_points, constant_speed, ser, position, velocity, last_time,
                  x_data, y_data, z_data, timestamps, frame_count,
                  colors, xlim, ylim, zlim>>
loop_vars    == <<frame, outcome, alive, log, accepted>>
parse_vars   == <<line, human_result, single_result>>
vars         == <<session_vars, loop_vars, parse_vars>>

-----------------------------------------------------------------------------
(* Bounds *)

MaxFields == 12     \* longest line of the parser harness, in fields
MaxTicks  == 4      \* update() calls per behaviour
MaxCap    == 3      \* largest max_points a session is constructed with

-----------------------------------------------------------------------------
(* Text *)

Whitespace == {" "}
Digits     == {"0", "1", "2", "3", "4", "5", "6", "7", "8", "9"}

DigitVal(c) ==
    CASE c = "0" -> 0 [] c = "1" -> 1 [] c = "2" -> 2 [] c = "3" -> 3
      [] c = "4" -> 4 [] c = "5" -> 5 [] c = "6" -> 6 [] c = "7" -> 7
      [] c = "8" -> 8 [] c = "9" -> 9

\* str.split('|'): one more part than there are delimiters
RECURSIVE SplitFrom(_, _)
SplitFrom(s, cur) ==
    IF s = <<>> THEN <<cur>>
    ELSE IF Head(s) = "|" THEN <<cur>> \o SplitFrom(Tail(s), <<>>)
    ELSE SplitFrom(Tail(s), Append(cur, Head(s)))

Split(s) == SplitFrom(s, <<>>)

\* str.strip()
RECURSIVE LStrip(_)
LStrip(s) == IF s # <<>> /\ Head(s) \in Whitespace THEN LStrip(Tail(s)) ELSE s

RECURSIVE RStrip(_)
RStrip(s) ==
    IF s # <<>> /\ s[Len(s)] \in Whitespace THEN RStrip(SubSeq(s, 1, Len(s) - 1)) ELSE s

Strip(s) == RStrip(LStrip(s))

RECURSIVE IntVal(_)
IntVal(ds) == IF ds = <<>> THEN 0 ELSE 10 * IntVal(SubSeq(ds, 1, Len(ds) - 1)) + DigitVal(ds[Len(ds)])

\* the first two fractional digits, as hundredths
FracVal(ds) ==
    (IF Len(ds) >= 1 THEN 10 * DigitVal(ds[1]) ELSE 0) + (IF Len(ds) >= 2 THEN DigitVal(ds[2]) ELSE 0)

DotsOf(s) == {i \in 1..Len(s) : s[i] = "."}

\* float(s) on a stripped string over the characters 0-9 . + - and any
\* other character that is no part of a number: [ok |-> FALSE] is ValueError.
\* Accepted: [sign] digits [. [digits]]  and  [sign] . digits
Float(s) ==
    LET signed == s # <<>> /\ s[1] \in {"+", "-"}
        body   == IF signed THEN Tail(s) ELSE s
        dots   == DotsOf(body)
        dot    == IF dots = {} THEN Len(body) + 1 ELSE CHOOSE i \in dots : TRUE
        ip     == SubSeq(body, 1, dot - 1)
        fp     == SubSeq(body, dot + 1, Len(body))
        wellformed ==
            /\ Cardinality(dots) <= 1
            /\ \A i \in 1..Len(body) : body[i] \in Digits \cup {"."}
            /\ Len(ip) + Len(fp) >= 1
        mag    == 100 * IntVal(ip) + FracVal(fp)
    IN  IF wellformed
        THEN [ok |-> TRUE, val |-> IF signed /\ s[1] = "-" THEN 0 - mag ELSE mag]
        ELSE [ok |-> FALSE]

-----------------------------------------------------------------------------
(* helpers.py *)

TELEMETRY_KEYS ==
    <<"time", "roll", "pitch", "yaw", "roll_rate", "pitch_rate", "yaw_rate",
      "accel_x", "accel_y", "accel_z", "mode">>

PyNone      == [tag |-> "None"]
Dict(d)     == [tag |-> "dict", d |-> d]
EmptyDict   == Dict(<<>>)
Raised      == [tag |-> "raise"]

\* bool(x) of a value a parser or read_serial_data returns
Truthy(r) == r.tag = "dict" /\ DOMAIN r.d # {}

\* line 24 with a float key whose ValueError is swallowed into 0.0
CastValue_NoValueError(key, value) ==
    IF key # "mode"
    THEN (IF value # <<>> /\ Float(value).ok THEN [ok |-> TRUE, val |-> Float(value).val]
          ELSE [ok |-> TRUE, val |-> 0])
    ELSE [ok |-> TRUE, val |-> value]

\* lines 23-24: cast_type(value) if value else (0.0 if cast_type == float else "")
CastValue(key, value) ==
    IF key # "mode"
    THEN (IF value # <<>> THEN Float(value) ELSE [ok |-> TRUE, val |-> 0])
    ELSE [ok |-> TRUE, val |-> value]

\* line 25 without the length test
HumanReturn_NoLengthTest(data) == Dict(data)

\* line 25: return data if len(data) == len(TELEMETRY_KEYS) else None
HumanReturn(data) ==
    IF Cardinality(DOMAIN data) = Len(TELEMETRY_KEYS) THEN Dict(data) ELSE PyNone

\* lines 20-28: the loop over enumerate(parts); IndexError and ValueError
\* are caught by `except Exception` and give None
RECURSIVE HumanLoop(_, _, _)
HumanLoop(parts, i, data) ==
    IF i > Len(parts) THEN HumanReturn(data)
    ELSE IF i > Len(TELEMETRY_KEYS) THEN PyNone
    ELSE LET key == TELEMETRY_KEYS[i]
             c   == CastValue(key, Strip(parts[i]))
         IN  IF c.ok THEN HumanLoop(parts, i + 1, (key :> c.val) @@ data) ELSE PyNone

parse_telemetry_human(l) == HumanLoop(Split(l), 1, <<>>)

\* helpers.parse_telemetry_line(line, mode): any other mode raises
parse_telemetry_line(l, mode) ==
    IF mode = "human_readable" THEN parse_telemetry_human(l) ELSE Raised

-----------------------------------------------------------------------------
(* single_frame_telemetry.py *)

\* lines 124-154: parse_telemetry_line(line) of the ground station
SingleFrame(l) ==
    LET parts == [i \in 1..Len(Split(l)) |-> Strip(Split(l)[i])]
    IN  IF Len(parts) >= 11
        THEN IF \A i \in 1..10 : Float(parts[i]).ok
             THEN Dict([k \in {TELEMETRY_KEYS[i] : i \in 1..11} |->
                          LET i == CHOOSE j \in 1..11 : TELEMETRY_KEYS[j] = k
                          IN  IF k = "mode" THEN Strip(parts[i]) ELSE Float(parts[i]).val])
             ELSE PyNone
        ELSE PyNone

-----------------------------------------------------------------------------
(* helpers.compute_position_from_telemetry *)

None    == <<>>
Some(v) == <<v>>

\* telemetry.get(key, default)
Get(d, key, default) == IF key \in DOMAIN d THEN d[key] ELSE default

\* np.cos(np.radians(a)), np.sin(np.radians(a)) for a a multiple of 90 degrees
Quadrant(a) == (a \div 9000) % 4
CosDeg(a) == CASE Quadrant(a) = 0 -> 1 [] Quadrant(a) = 1 -> 0
               [] Quadrant(a) = 2 -> -1 [] Quadrant(a) = 3 -> 0
SinDeg(a) == CASE Quadrant(a) = 0 -> 0 [] Quadrant(a) = 1 -> 1
               [] Quadrant(a) = 2 -> 0 [] Quadrant(a) = 3 -> -1

\* helpers.py line 69 and draw_flight_path.py line 83: 0.05 s
DEFAULT_DT == 5

\* lines 63-65 with sin and cos of the yaw exchanged
Direction_YawSwapped(telemetry, speed) ==
    LET pitch == Get(telemetry, "pitch", 0)
        yaw   == Get(telemetry, "yaw", 0)
    IN  <<speed * CosDeg(pitch) * SinDeg(yaw),
          speed * CosDeg(pitch) * CosDeg(yaw),
          speed * SinDeg(pitch)>>

\* lines 63-65: the direction vector, scaled by the speed
Direction(telemetry, speed) ==
    LET pitch == Get(telemetry, "pitch", 0)
        yaw   == Get(telemetry, "yaw", 0)
    IN  <<speed * CosDeg(pitch) * CosDeg(yaw),
          speed * CosDeg(pitch) * SinDeg(yaw),
          speed * SinDeg(pitch)>>

\* lines 71-73 with a negative dt floored at zero
Advance_ClampedDt(prev_position, d, dt) ==
    LET step == IF dt < 0 THEN 0 ELSE dt
    IN  <<prev_position[1] + d[1] * step,
          prev_position[2] + d[2] * step,
          prev_position[3] + d[3] * step>>

\* lines 71-73: new = prev + d * dt
Advance(prev_position, d, dt) ==
    <<prev_position[1] + d[1] * dt,
      prev_position[2] + d[2] * dt,
      prev_position[3] + d[3] * dt>>

\* lines 41-75; dt is None or Some(seconds); returns <<new_position, new_velocity>>
compute_position_from_telemetry(telemetry, prev_position, prev_velocity, speed, dt) ==
    LET d    == Direction(telemetry, speed)
        step == IF dt = None THEN DEFAULT_DT ELSE dt[1]
    IN  <<Advance(prev_position, d, step), d>>

-----------------------------------------------------------------------------
(* Inputs of the tick loop *)

RECURSIVE Join(_)
Join(fields) ==
    IF Len(fields) = 0 THEN <<>>
    ELSE IF Len(fields) = 1 THEN fields[1]
    ELSE fields[1] \o <<"|">> \o Join(Tail(fields))

Zero == <<"0">>
NOML == <<"N", "O", "M", "L">>

\* time|roll|pitch|yaw|0|0|0|0|0|0|NOML
Telemetry(time, pitch, yaw) ==
    Join(<<time, Zero, pitch, yaw, Zero, Zero, Zero, Zero, Zero, Zero, NOML>>)

LineOne   == Telemetry(<<"1", ".", "0", "0">>, Zero, Zero)
LineTwo   == Telemetry(<<"2", ".", "0", "0">>, Zero, Zero)
LineZero  == Telemetry(Zero, Zero, <<"9", "0">>)
LineClimb == <<" ">> \o Telemetry(<<"1", ".", "5", " ">>, <<" ", "9", "0">>, Zero) \o <<" ">>
LineBack  == Telemetry(<<"-", "1">>, Zero, <<"1", "8", "0">>)
LineShort == Join(<<<<"1", ".", "0", "0">>, Zero, Zero>>)

PipelineLines == {LineOne, LineTwo, LineZero, LineClimb, LineBack, LineShort}

-----------------------------------------------------------------------------
(* draw_flight_path.FlightPathVisualizer *)

SetMin(S) == CHOOSE m \in S : \A v \in S : m <= v
SetMax(S) == CHOOSE m \in S : \A v \in S : m >= v
Range(q)  == {q[i] : i \in 1..Len(q)}

\* deque(maxlen=n).append(v) that drops the new element when full
DequeAppend_KeepOldest(q, v, maxlen) ==
    IF Len(q) < maxlen THEN Append(q, v) ELSE q

\* deque(maxlen=n).append(v): when full, the element at the left end goes
DequeAppend(q, v, maxlen) ==
    IF maxlen = 0 THEN q
    ELSE IF Len(q) = maxlen THEN Append(Tail(q), v)
    ELSE Append(q, v)

\* lines 28-36, 57-61: the fields __init__ sets
InitSession(mp, speed, port) ==
    /\ max_points = mp
    /\ constant_speed = speed
    /\ ser = port
    /\ position = <<0, 0, 0>>
    /\ velocity = <<0, 0, 0>>
    /\ last_time = None
    /\ x_data = <<>> /\ y_data = <<>> /\ z_data = <<>> /\ timestamps = <<>>
    /\ frame_count = 0
    /\ colors = <<>>
    /\ xlim = <<-10000, 10000>>
    /\ ylim = <<-10000, 10000>>
    /\ zlim = <<0, 20000>>

\* line 68 applied to each line the port can deliver (stripped by line 67):
\* parse_telemetry_line is a pure function of the line, tabulated once
ParsedLine == [l \in PipelineLines |-> parse_telemetry_line(Strip(l), "human_readable")]

\* what the serial port holds when update() polls it
NoData      == [kind |-> "none"]
ReadError   == [kind |-> "error"]
Waiting(l)  == [kind |-> "line", raw |-> l]

\* lines 63-71 with the try/except removed: a failing read propagates
read_serial_data_Uncaught(rx) ==
    IF ser = "open" /\ rx.kind # "none"
    THEN (IF rx.kind = "error" THEN Raised
          ELSE ParsedLine[rx.raw])
    ELSE EmptyDict

\* lines 63-71: a parsed frame, None for a rejected line, dict() otherwise
read_serial_data(rx) ==
    IF ser = "open" /\ rx.kind # "none"
    THEN (IF rx.kind = "error" THEN EmptyDict
          ELSE LET r == ParsedLine[rx.raw]
               IN  IF r.tag = "raise" THEN EmptyDict ELSE r)
    ELSE EmptyDict

\* line 83: the truth value of self.last_time (None and 0.0 are both false)
HasLastTime(t) == t # None /\ t[1] # 0

\* lines 111-115 dividing by the largest timestamp
Normalize_ByMax(ts) ==
    IF Len(ts) > 1
    THEN [i \in 1..Len(ts) |-> <<ts[i] - SetMin(Range(ts)), SetMax(Range(ts))>>]
    ELSE <<<<0, 1>>>>

\* lines 111-115: each weight as <<numerator, denominator>>
Normalize(ts) ==
    IF Len(ts) > 1
    THEN [i \in 1..Len(ts) |->
            <<ts[i] - SetMin(Range(ts)), SetMax(Range(ts)) - SetMin(Range(ts))>>]
    ELSE <<<<0, 1>>>>

\* lines 138-140: (max - min) * 0.1 or 1, in thousandths
Padding(lo, hi) == IF hi - lo # 0 THEN hi - lo ELSE 1000

\* lines 142-144: (min - padding, max + padding), in thousandths
PaddedLimits(data) ==
    LET lo == SetMin(Range(data))
        hi == SetMax(Range(data))
    IN  <<10 * lo - Padding(lo, hi), 10 * hi + Padding(lo, hi)>>

\* line 135 adjusting as soon as two points are held
ShouldAdjust_TwoPoints(data) == Len(data) > 1

\* line 135: if len(self.x_data) > 2
ShouldAdjust(data) == Len(data) > 2

\* line 102 without the increment
NextFrameCount_Stuck(n) == n

\* line 102: self.frame_count += 1
NextFrameCount(n) == n + 1

\* lines 81-144: the part of update() that runs on a truthy packet
Integrate(packet) ==
    LET d            == packet.d
        current_time == Get(d, "time", 0)
        dt           == IF HasLastTime(last_time) THEN current_time - last_time[1]
                        ELSE DEFAULT_DT
        pv           == compute_position_from_telemetry(d, position, velocity,
                                                        constant_speed, Some(dt))
        xs           == DequeAppend(x_data, pv[1][1], max_points)
        ys           == DequeAppend(y_data, pv[1][2], max_points)
        zs           == DequeAppend(z_data, pv[1][3], max_points)
        ts           == DequeAppend(timestamps, frame_count, max_points)
    IN  /\ last_time' = Some(current_time)
        /\ position' = pv[1]
        /\ velocity' = pv[2]
        /\ x_data' = xs /\ y_data' = ys /\ z_data' = zs /\ timestamps' = ts
        /\ frame_count' = NextFrameCount(frame_count)
        /\ colors' = IF Len(xs) > 0 THEN Normalize(ts) ELSE colors
        /\ xlim' = IF Len(xs) > 0 /\ ShouldAdjust(xs) THEN PaddedLimits(xs) ELSE xlim
        /\ ylim' = IF Len(xs) > 0 /\ ShouldAdjust(xs) THEN PaddedLimits(ys) ELSE ylim
        /\ zlim' = IF Len(xs) > 0 /\ ShouldAdjust(xs) THEN PaddedLimits(zs) ELSE zlim
        /\ accepted' = Append(accepted,
                              [packet |-> d, prev |-> last_time, dt |-> dt,
                               from |-> position, position |-> pv[1],
                               velocity |-> pv[2], sequence |-> frame_count])
        /\ UNCHANGED <<max_points, constant_speed, ser>>

\* lines 73-150: one call of update() by the animation timer
update(rx) ==
    LET packet == read_serial_data(rx)
        read   == ser = "open" /\ rx.kind = "line"
    IN  /\ alive
        /\ frame < MaxTicks
        /\ frame' = frame + 1
        /\ log' = IF read THEN Append(log, rx.raw) ELSE log
        /\ alive' = (packet.tag # "raise")
        /\ IF packet.tag # "raise" /\ Truthy(packet)
           THEN /\ Integrate(packet)
                /\ outcome' = "accepted"
           ELSE /\ UNCHANGED session_vars
                /\ UNCHANGED accepted
                /\ outcome' = IF packet.tag = "raise" THEN "raised"
                              ELSE IF packet.tag = "None" THEN "rejected"
                              ELSE IF ser = "open" /\ rx.kind = "error" THEN "readerror"
                              ELSE "nodata"
        /\ UNCHANGED parse_vars

-----------------------------------------------------------------------------
(* Sessions *)

Speeds == {1, 2}

InitLoop ==
    /\ frame = 0
    /\ outcome = "start"
    /\ alive = TRUE
    /\ log = <<>>
    /\ accepted = <<>>

InitParseIdle ==
    /\ line = <<>>
    /\ human_result = [tag |-> "pending"]
    /\ single_result = [tag |-> "pending"]

Init ==
    /\ \E mp \in 0..MaxCap, speed \in Speeds, port \in {"open", "None"} :
          InitSession(mp, speed, port)
    /\ InitLoop
    /\ InitParseIdle

UpdateLine      == \E l \in PipelineLines : update(Waiting(l))
UpdateNoData    == update(NoData)
UpdateReadError == update(ReadError)

Next == UpdateLine \/ UpdateNoData \/ UpdateReadError

Spec == Init /\ [][Next]_vars

-----------------------------------------------------------------------------
(* Parser harness: both parsers applied to a line drawn from ParseLines *)

Default(i) == IF i = Len(TELEMETRY_KEYS) THEN NOML ELSE Zero

FieldChoices ==
    {Zero, <<"1", ".", "5">>, <<>>, <<" ">>, <<" ", "2", " ">>, <<"x">>,
     <<"-">>, <<"-", "1">>, <<".">>, <<"1", ".", "2", ".", "3">>, NOML}

\* every field the default but one
OneOdd ==
    UNION {{Join([i \in 1..n |-> IF i = p THEN f ELSE Default(i)]) :
               p \in 1..n, f \in FieldChoices} : n \in 1..MaxFields}

\* every field the same
Uniform == {Join([i \in 1..n |-> f]) : n \in 1..MaxFields, f \in FieldChoices}

\* two fields empty or unparseable
TwoOdd ==
    UNION {{Join([i \in 1..n |-> IF i = p THEN f ELSE IF i = q THEN g ELSE Default(i)]) :
               p \in 1..n, q \in 1..n, f \in {<<>>, <<"x">>}, g \in {<<>>, <<"x">>}} :
           n \in 2..MaxFields}

ParseLines == OneOdd \cup Uniform \cup TwoOdd

Pending == [tag |-> "pending"]

ParseInit ==
    /\ InitSession(MaxCap, 1, "open")
    /\ InitLoop
    /\ line \in ParseLines
    /\ human_result = Pending
    /\ single_result = Pending

ParseHuman ==
    /\ human_result = Pending
    /\ human_result' = parse_telemetry_human(line)
    /\ UNCHANGED <<session_vars, loop_vars, line, single_result>>

ParseSingle ==
    /\ single_result = Pending
    /\ single_result' = SingleFrame(line)
    /\ UNCHANGED <<session_vars, loop_vars, line, human_result>>

ParseNext == ParseHuman \/ ParseSingle

ParseSpec == ParseInit /\ [][ParseNext]_vars

-----------------------------------------------------------------------------
(* Properties of the parsers (checked under ParseSpec) *)

Fields       == Split(line)
NumericIdx   == {i \in 1..Len(Fields) : i <= 10}
Unparseable(i) == Strip(Fields[i]) # <<>> /\ ~Float(Strip(Fields[i])).ok
EmptyField(i)  == Strip(Fields[i]) = <<>>
OnlyBars     == \A i \in 1..Len(line) : line[i] = "|"
ZeroFrame    ==
    [k \in {TELEMETRY_KEYS[i] : i \in 1..Len(TELEMETRY_KEYS)} |->
        IF k = "mode" THEN <<>> ELSE 0]

\* C4 as stated: parse_telemetry_human returns no frame for every line in
\* which one of the fields 0-9 is, after trimming, not parseable as a
\* float, an empty field included; so the empty string and every line of
\* `|` delimiters alone are rejected.
C4_AsStated ==
    human_result # Pending =>
        ((\E i \in NumericIdx : EmptyField(i) \/ Unparseable(i)) => human_result = PyNone)

\* C4 amended: parse_telemetry_human returns no frame for every line in
\* which one of the fields 0-9 is, after trimming, non-empty and not
\* parseable as a float.  A field that is empty after trimming is not
\* rejected: in a frame it reads as 0.0.  The empty string and a line of
\* `|` delimiters alone are rejected unless the delimiters are exactly ten,
\* which gives the all-zero frame with an empty mode.
C4_Amended ==
    human_result # Pending =>
        /\ (\E i \in NumericIdx : Unparseable(i)) => human_result = PyNone
        /\ human_result.tag = "dict" =>
              \A i \in NumericIdx :
                  EmptyField(i) => human_result.d[TELEMETRY_KEYS[i]] = 0
        /\ OnlyBars =>
              human_result = (IF Len(line) = 10 THEN Dict(ZeroFrame) ELSE PyNone)

\* C4 witness: an 11-field line holding an unparseable numeric field next
\* to an empty one has been parsed and rejected
C4_Witness ==
    /\ human_result = PyNone
    /\ Len(Fields) = Len(TELEMETRY_KEYS)
    /\ \E i \in NumericIdx : Unparseable(i)
    /\ \E i \in NumericIdx : EmptyField(i)

\* C5: for every line that splits into fewer than 11 fields, each parser
\* returns None: no frame, no partly filled frame, and no exception.
C5_ShortLinesRejected ==
    Len(Fields) < 11 =>
        /\ human_result \in {Pending, PyNone}
        /\ single_result \in {Pending, PyNone}

\* C5 witness: both parsers have run on a 10-field line whose fields all
\* parse
C5_Witness ==
    /\ Len(Fields) = 10
    /\ \A i \in NumericIdx : ~EmptyField(i) /\ ~Unparseable(i)
    /\ human_result = PyNone
    /\ single_result = PyNone

-----------------------------------------------------------------------------
(* Properties of the tick loop (checked under Spec) *)

Min2(a, b)   == IF a < b THEN a ELSE b
Last(q)      == q[Len(q)]
Points       == [i \in 1..Len(x_data) |-> <<x_data[i], y_data[i], z_data[i]>>]
\* the k most recent entries of a history, oldest first
Recent(q, k) == [i \in 1..k |-> q[Len(q) - k + i]]
PushedX      == [i \in 1..Len(accepted) |-> accepted[i].position[1]]
PushedY      == [i \in 1..Len(accepted) |-> accepted[i].position[2]]
PushedZ      == [i \in 1..Len(accepted) |-> accepted[i].position[3]]
PushedSeq    == [i \in 1..Len(accepted) |-> accepted[i].sequence]
SameSeq(p, q) == Len(p) = Len(q) /\ \A i \in 1..Len(p) : p[i] = q[i]

\* C1 as stated: from a fresh session with constant_speed = 1 (and room
\* for two points), the lines `1.00|0|...|NOML` and `2.00|0|...|NOML` leave
\* the store holding exactly (0,0,0) and then (1,0,0).
C1_AsStated ==
    (constant_speed = 1 /\ max_points >= 2 /\ log = <<LineOne, LineTwo>>) =>
        SameSeq(Points, <<<<0, 0, 0>>, <<100, 0, 0>>>>)

\* C1 amended: from a fresh session with constant_speed = 1 and room for
\* two points, the two lines leave the store holding exactly (0.05,0,0) and
\* then (1.05,0,0): the first frame is integrated with the default dt of
\* 0.05, the second with dt = 1.
C1_Amended ==
    (constant_speed = 1 /\ max_points >= 2 /\ log = <<LineOne, LineTwo>>) =>
        SameSeq(Points, <<<<5, 0, 0>>, <<105, 0, 0>>>>)

\* C1 witness: exactly the two lines have been processed by such a session
C1_Witness ==
    /\ constant_speed = 1 /\ max_points >= 2
    /\ log = <<LineOne, LineTwo>>
    /\ frame_count = 2

\* the four histories are the most recent min(n, max_points) accepted points
StoreIsWindow ==
    LET n == Len(accepted)
        k == Min2(n, max_points)
    IN  /\ Len(x_data) = k /\ Len(y_data) = k /\ Len(z_data) = k /\ Len(timestamps) = k
        /\ SameSeq(x_data, Recent(PushedX, k))
        /\ SameSeq(y_data, Recent(PushedY, k))
        /\ SameSeq(z_data, Recent(PushedZ, k))
        /\ SameSeq(timestamps, Recent(PushedSeq, k))

\* C2: after n accepted frames each of x_data, y_data, z_data, timestamps
\* holds exactly min(n, max_points) entries, the most recently appended ones
\* in insertion order (so what an append removes is the oldest entry), and
\* max_points never changes.
C2_BoundedHistory == [](StoreIsWindow) /\ [][max_points' = max_points]_vars

\* C2 witness: a store of capacity two or more has evicted
C2_Witness ==
    /\ max_points >= 2
    /\ Len(accepted) > max_points
    /\ Len(x_data) = max_points

\* a tick that read no line, or read a line the parser rejects
QuietTick ==
    /\ frame' = frame + 1
    /\ \/ log' = log
       \/ ParsedLine[Last(log')] = PyNone

C6_SequenceNumbers ==
    /\ [](/\ \A i, j \in 1..Len(timestamps) : i < j => timestamps[i] < timestamps[j]
          /\ \A i, j \in 1..Len(accepted) :
                 i # j => accepted[i].sequence # accepted[j].sequence)
    /\ [][\/ frame_count' = frame_count /\ accepted' = accepted
          \/ /\ frame_count' = frame_count + 1
             /\ Len(accepted') = Len(accepted) + 1
             /\ Last(accepted').sequence = frame_count
             /\ (max_points > 0 => Last(timestamps') = frame_count)]_vars

\* C6 witness: sequence numbers survive an eviction in a store of two or more
C6_Witness ==
    /\ Len(timestamps) >= 2
    /\ timestamps[1] > 0
    /\ frame_count = Last(timestamps) + 1

\* C7: with more than one point the weight of each point is
\* (seq - seq_min) / (seq_max - seq_min), the divisor is never zero, the
\* oldest point has weight 0, the newest weight 1, every weight lies in
\* [0,1] and weights increase strictly in insertion order; with exactly one
\* point the weight is 0.
C7_ColorWeights ==
    LET n   == Len(timestamps)
        lo  == SetMin(Range(timestamps))
        hi  == SetMax(Range(timestamps))
    IN  n >= 1 =>
          /\ Len(colors) = n
          /\ \A i \in 1..n : colors[i][2] > 0 /\ 0 <= colors[i][1] /\ colors[i][1] <= colors[i][2]
          /\ n = 1 => colors[1][1] = 0
          /\ n > 1 =>
               /\ hi - lo > 0
               /\ \A i \in 1..n : colors[i][1] * (hi - lo) = (timestamps[i] - lo) * colors[i][2]
               /\ colors[1][1] = 0
               /\ colors[n][1] = colors[n][2]
               /\ \A i \in 1..(n - 1) :
                     colors[i][1] * colors[i + 1][2] < colors[i + 1][1] * colors[i][2]

\* C7 witness: a store of three points whose oldest sequence number is not 0
C7_Witness ==
    /\ Len(timestamps) = 3
    /\ timestamps[1] > 0
    /\ outcome = "accepted"

\* min and max of one coordinate over the store, widened by 10% of the
\* range or by 1.0 when the range is zero (thousandths)
Extent(data) ==
    LET lo  == SetMin(Range(data))
        hi  == SetMax(Range(data))
        pad == IF hi = lo THEN 1000 ELSE hi - lo
    IN  <<10 * lo - pad, 10 * hi + pad>>

\* C8 as stated: whenever the store is non-empty the axis limits are the
\* padded extents of the points it holds.
C8_AsStated ==
    Len(x_data) > 0 =>
        xlim = Extent(x_data) /\ ylim = Extent(y_data) /\ zlim = Extent(z_data)

\* C8 amended: whenever the store holds more than two points the axis
\* limits are, per axis, the minimum and maximum over exactly the points
\* currently in the store, widened on each side by 10% of the range, or by
\* 1.0 when the range is zero; while it holds two points or fewer the limits
\* stay at the initial (-10,10), (-10,10), (0,20), so after two pushes the x
\* limits are still (-10,10).
C8_Amended ==
    /\ Len(x_data) > 2 =>
          xlim = Extent(x_data) /\ ylim = Extent(y_data) /\ zlim = Extent(z_data)
    /\ Len(x_data) <= 2 =>
          xlim = <<-10000, 10000>> /\ ylim = <<-10000, 10000>> /\ zlim = <<0, 20000>>

\* C8 witness: a full store of three or more points has evicted the point
\* that held the smallest x, and one axis has range zero
C8_Witness ==
    /\ Len(x_data) > 2
    /\ Len(accepted) > Len(x_data)
    /\ accepted[1].position[1] < SetMin(Range(x_data))
    /\ \E axis \in {x_data, y_data, z_data} : SetMin(Range(axis)) = SetMax(Range(axis))

\* C9: the dt of every accepted frame but the first is its time minus the
\* time of the frame accepted before it, whatever that time was; the first
\* uses 0.05; and last_time is the time of the frame accepted last.
C9_DtFromPreviousFrame ==
    /\ \A i \in 1..Len(accepted) :
          accepted[i].dt = (IF i > 1
                            THEN accepted[i].packet.time - accepted[i - 1].packet.time
                            ELSE DEFAULT_DT)
    /\ accepted # <<>> => last_time = Some(Last(accepted).packet.time)

\* a tick that read a frame whose time is not above the non-zero time of the
\* frame accepted before it
LateFrameTick ==
    /\ frame' = frame + 1
    /\ log' # log
    /\ ParsedLine[Last(log')].tag = "dict"
    /\ last_time # None
    /\ last_time[1] # 0
    /\ ParsedLine[Last(log')].d.time <= last_time[1]

\* C10: a frame whose time equals or is below the non-zero time of the
\* frame accepted before it is accepted: the position moves by
\* direction * dt with dt the raw difference (zero or negative), a point is
\* appended, the sequence counter advances and last_time becomes the lower
\* time.
C10_LateFrameAccepted ==
    [][LateFrameTick =>
          LET t  == ParsedLine[Last(log')].d.time
              dt == t - last_time[1]
          IN  /\ position' = <<position[1] + velocity'[1] * dt,
                               position[2] + velocity'[2] * dt,
                               position[3] + velocity'[3] * dt>>
              /\ frame_count' = frame_count + 1
              /\ last_time' = Some(t)
              /\ max_points > 0 =>
                    /\ <<Last(x_data'), Last(y_data'), Last(z_data')>> = position'
                    /\ Last(timestamps') = frame_count]_vars

\* C10 witness: the last accepted frame had a time below the non-zero
\* time of the one before it and moved the position backwards
C10_Witness ==
    /\ accepted # <<>>
    /\ Last(accepted).prev # None
    /\ Last(accepted).prev[1] # 0
    /\ Last(accepted).packet.time < Last(accepted).prev[1]
    /\ Last(accepted).position # Last(accepted).from
    /\ Len(x_data) >= 2
    /\ outcome = "accepted"

=============================================================================
